---- MODULE Spec2Model ----
(***************************************************************************)
(* Shared-haplotype segment finder: the streaming clustering loop of       *)
(* main() and the segment emitter flush_cluster() of                      *)
(* src/graphs_for_true_matches.py, with their helper functions.            *)
(*                                                                         *)
(* Conventions.  Python lists are sequences; Python list indices are       *)
(* 0-based, so variants[k] of the source is variants[k + 1] here, and the  *)
(* block tuples (b_start, b_end, mode) keep the source's 0-based indices.  *)
(* Individuals are numbered 1..NInd (sample index + 1).  Text (chromosome  *)
(* names, the CSQ annotation) is a sequence of one-character strings.      *)
(* A parsed float is the exact decimal num/den; ok = FALSE is ValueError.   *)
(***************************************************************************)
EXTENDS Integers, Sequences, FiniteSets, TLC

\* Python's None, and a present optional value x
None == << >>
Some(x) == << x >>

\* ------------------------------------------------------------------ bounds
MaxStream == 3
MaxDelta == 2
MaxFlushLen == 3
MaxCarrierLen == 10
MaxCsqLen == 4
MaxOverlapOff == 3

\* ----------------------------------------------------------- program constants
BUFFER == 10000
HOM_ALT == 3

\* --------------------------------------------------------------- text helpers
RECURSIVE lstrip(_, _)
lstrip(s, chars) ==
    IF s # << >> /\ Head(s) \in chars THEN lstrip(Tail(s), chars) ELSE s

\* str.split(sep): the pieces between the occurrences of sep (always >= 1 piece)
RECURSIVE split(_, _)
split(s, sep) ==
    IF \A k \in DOMAIN s : s[k] # sep
    THEN << s >>
    ELSE LET k == CHOOSE j \in DOMAIN s :
                      s[j] = sep /\ \A i \in 1..(j - 1) : s[i] # sep
         IN  << SubSeq(s, 1, k - 1) >> \o split(SubSeq(s, k + 1, Len(s)), sep)

Digit == [c \in {"0", "1"} |-> IF c = "0" THEN 0 ELSE 1]

RECURSIVE DigitsValue(_)
DigitsValue(ds) ==
    IF ds = << >> THEN 0
    ELSE 10 * DigitsValue(SubSeq(ds, 1, Len(ds) - 1)) + Digit[ds[Len(ds)]]

RECURSIVE Pow10(_)
Pow10(k) == IF k = 0 THEN 1 ELSE 10 * Pow10(k - 1)

\* float(val) on text over digits and ".": digits with at most one ".", at least
\* one digit; anything else raises ValueError (ok = FALSE)
float(val) ==
    LET dots == { k \in DOMAIN val : val[k] = "." }
    IN  IF \E k \in DOMAIN val : val[k] \notin (DOMAIN Digit \cup {"."})
        THEN [ok |-> FALSE, num |-> 0, den |-> 1]
        ELSE IF Cardinality(dots) > 1 \/ Len(val) - Cardinality(dots) = 0
        THEN [ok |-> FALSE, num |-> 0, den |-> 1]
        ELSE IF dots = {}
        THEN [ok |-> TRUE, num |-> DigitsValue(val), den |-> 1]
        ELSE LET d == CHOOSE k \in dots : TRUE
                 ip == SubSeq(val, 1, d - 1)
                 fp == SubSeq(val, d + 1, Len(val))
             IN  [ok |-> TRUE, num |-> DigitsValue(ip \o fp), den |-> Pow10(Len(fp))]

LtDec(a, b) == a.num * b.den < b.num * a.den

\* a <= b on exact decimals
LeqDec(a, b) == a.num * b.den <= b.num * a.den

\* ------------------------------------------------------------ helper functions
Prefix2(gts) == SubSeq(gts, 1, IF Len(gts) < 2 THEN Len(gts) ELSE 2)

variant_carriers(v) ==
    { i \in DOMAIN v.genotypes :
        \E k \in DOMAIN Prefix2(v.genotypes[i]) : Prefix2(v.genotypes[i])[k] > 0 }

all_shared_homozygous_code2(v, shared_inds) ==
    \A i \in shared_inds : v.gt_types[i] = 2

all_shared_homozygous(v, shared_inds) ==
    \A i \in shared_inds : v.gt_types[i] = HOM_ALT

overlaps_gene_region_half_open(chrom, start, end, regions) ==
    LET c == lstrip(chrom, {"c", "h", "r"})
    IN  \E k \in DOMAIN regions :
            /\ c = regions[k][1]
            /\ ~ (end <= regions[k][2] \/ start > regions[k][3])

overlaps_gene_region(chrom, start, end, regions) ==
    LET c == lstrip(chrom, {"c", "h", "r"})
    IN  \E k \in DOMAIN regions :
            /\ c = regions[k][1]
            /\ ~ (end < regions[k][2] \/ start > regions[k][3])

RECURSIVE UltraRareScan(_, _, _)
UltraRareScan(entries, gnomad_idx, af_threshold) ==
    IF entries = << >> THEN FALSE
    ELSE LET fields == split(Head(entries), "|")
             rest   == UltraRareScan(Tail(entries), gnomad_idx, af_threshold)
         IN  IF Len(fields) <= gnomad_idx THEN rest
             ELSE LET val == fields[gnomad_idx + 1]
                  IN  IF val = << >> \/ val = << "." >> THEN TRUE
                      ELSE IF ~ float(val).ok THEN rest
                      ELSE IF LeqDec(float(val), af_threshold) THEN TRUE
                      ELSE rest

is_ultra_rare_variant(variant, gnomad_idx, af_threshold) ==
    IF variant.CSQ = << >> THEN FALSE
    ELSE UltraRareScan(split(variant.CSQ, ","), gnomad_idx, af_threshold)

\* --------------------------------------------------------------- flush_cluster
\* Counter(flat_list): how many of the cluster's carrier sets hold individual i
\* (individuals with no carrier set at all have no Counter entry)
RECURSIVE CarrierCount(_, _)
CarrierCount(individual_sets, i) ==
    IF individual_sets = << >> THEN 0
    ELSE (IF i \in Head(individual_sets) THEN 1 ELSE 0)
         + CarrierCount(Tail(individual_sets), i)

CounterKeys(individual_sets) ==
    UNION { individual_sets[k] : k \in DOMAIN individual_sets }

ThresholdCeil(total_variants) == (8 * total_variants + 9) \div 10

\* int(0.8 * total_variants)
Threshold(total_variants) == (8 * total_variants) \div 10

SharedInds(variants) ==
    LET individual_sets == [k \in DOMAIN variants |-> variant_carriers(variants[k])]
        threshold == Threshold(Len(individual_sets))
    IN  { i \in CounterKeys(individual_sets) :
            CarrierCount(individual_sets, i) >= threshold }

PassesCarrierCountNoMax(n_shared, a) == ~ (n_shared < a.min_individuals)

PassesCarrierCount(n_shared, a) ==
    /\ ~ (n_shared < a.min_individuals)
    /\ ~ (a.max_individuals # None /\ n_shared > a.max_individuals[1])

Mode(v, shared_inds) ==
    IF all_shared_homozygous(v, shared_inds) THEN "double" ELSE "single"

RECURSIVE SegmentByModeKeepStart(_, _, _, _, _, _)
SegmentByModeKeepStart(variants, shared_inds, idx, cur_mode, block_start, blocks) ==
    IF idx >= Len(variants)
    THEN Append(blocks, << block_start, Len(variants) - 1, cur_mode[1] >>)
    ELSE LET mode == Mode(variants[idx + 1], shared_inds)
         IN  IF cur_mode = None
             THEN SegmentByModeKeepStart(variants, shared_inds, idx + 1, Some(mode),
                                         block_start, blocks)
             ELSE IF Some(mode) # cur_mode
             THEN SegmentByModeKeepStart(variants, shared_inds, idx + 1, Some(mode),
                                         block_start,
                                         Append(blocks, << block_start, idx - 1, cur_mode[1] >>))
             ELSE SegmentByModeKeepStart(variants, shared_inds, idx + 1, cur_mode,
                                         block_start, blocks)

\* the segmentation loop: idx is the 0-based index of the variant looked at,
\* cur_mode = None before the first variant
RECURSIVE SegmentByMode(_, _, _, _, _, _)
SegmentByMode(variants, shared_inds, idx, cur_mode, block_start, blocks) ==
    IF idx >= Len(variants)
    THEN Append(blocks, << block_start, Len(variants) - 1, cur_mode[1] >>)
    ELSE LET mode == Mode(variants[idx + 1], shared_inds)
         IN  IF cur_mode = None
             THEN SegmentByMode(variants, shared_inds, idx + 1, Some(mode),
                                block_start, blocks)
             ELSE IF Some(mode) # cur_mode
             THEN SegmentByMode(variants, shared_inds, idx + 1, Some(mode), idx,
                                Append(blocks, << block_start, idx - 1, cur_mode[1] >>))
             ELSE SegmentByMode(variants, shared_inds, idx + 1, cur_mode,
                                block_start, blocks)

Blocks(variants, shared_inds) ==
    SegmentByMode(variants, shared_inds, 0, None, 0, << >>)

RECURSIVE CountUltraRare(_, _, _)
CountUltraRare(block_vars, gnomad_idx, af_threshold) ==
    IF block_vars = << >> THEN 0
    ELSE (IF is_ultra_rare_variant(Head(block_vars), gnomad_idx, af_threshold)
          THEN 1 ELSE 0)
         + CountUltraRare(Tail(block_vars), gnomad_idx, af_threshold)

\* sorted(shared_inds) as a sequence
RECURSIVE SortedSeq(_)
SortedSeq(S) ==
    IF S = {} THEN << >>
    ELSE LET m == CHOOSE x \in S : \A y \in S : x <= y
         IN  << m >> \o SortedSeq(S \ {m})

LeftFlankAlwaysPrev(variants, b_start, prev_nonshared_pos) == prev_nonshared_pos

\* line 256
LeftFlank(variants, b_start, prev_nonshared_pos) ==
    IF b_start > 0 THEN Some(variants[b_start].POS) ELSE prev_nonshared_pos

\* line 257
RightFlank(variants, b_end, next_nonshared_pos) ==
    IF b_end + 1 < Len(variants) THEN Some(variants[b_end + 2].POS)
    ELSE next_nonshared_pos

\* one pass of the body of "for b_start, b_end, mode in blocks": << >> when a
\* filter says continue, else the one printed line (b_start and b_end record
\* the block the line was printed for; they are not part of the printed text)
BlockLine(variants, prev_nonshared_pos, next_nonshared_pos, a, shared_inds, block) ==
    LET b_start == block[1]
        b_end == block[2]
        block_vars == SubSeq(variants, b_start + 1, b_end + 1)
        segment_length == block_vars[Len(block_vars)].POS - block_vars[1].POS
        start == block_vars[1].POS
        end == block_vars[Len(block_vars)].POS
        n_ultra_rare == CountUltraRare(block_vars, a.gnomad_idx, a.ultra_rare_threshold)
        left_flank == LeftFlank(variants, b_start, prev_nonshared_pos)
        right_flank == RightFlank(variants, b_end, next_nonshared_pos)
    IN  IF \/ Len(block_vars) < a.min_variants
           \/ (a.min_segment_length # None /\ segment_length < a.min_segment_length[1])
           \/ (a.max_segment_length # None /\ segment_length > a.max_segment_length[1])
        THEN << >>
        ELSE IF ~ overlaps_gene_region(variants[1].CHROM, start, end, a.gene_regions)
        THEN << >>
        ELSE IF n_ultra_rare < a.min_ultra_rare
        THEN << >>
        ELSE << [ chrom |-> variants[1].CHROM, start |-> start, end |-> end,
                  variant_count |-> Len(block_vars),
                  shared_individual_count |-> Cardinality(shared_inds),
                  inds |-> SortedSeq(shared_inds), mode |-> block[3],
                  err_left |-> IF left_flank = None THEN None
                               ELSE Some(start - left_flank[1]),
                  err_right |-> IF right_flank = None THEN None
                                ELSE Some(right_flank[1] - end),
                  n_ultra_rare |-> n_ultra_rare, label |-> "ULTRA_RARE",
                  b_start |-> b_start, b_end |-> b_end ] >>

RECURSIVE EmitBlocksBreak(_, _, _, _, _, _)
EmitBlocksBreak(variants, prev_nonshared_pos, next_nonshared_pos, a, shared_inds, blocks) ==
    IF blocks = << >> THEN << >>
    ELSE LET line == BlockLine(variants, prev_nonshared_pos, next_nonshared_pos, a,
                               shared_inds, Head(blocks))
         IN  IF line = << >> THEN << >>
             ELSE line \o EmitBlocksBreak(variants, prev_nonshared_pos,
                                          next_nonshared_pos, a, shared_inds,
                                          Tail(blocks))

RECURSIVE EmitBlocks(_, _, _, _, _, _)
EmitBlocks(variants, prev_nonshared_pos, next_nonshared_pos, a, shared_inds, blocks) ==
    IF blocks = << >> THEN << >>
    ELSE BlockLine(variants, prev_nonshared_pos, next_nonshared_pos, a,
                   shared_inds, Head(blocks))
         \o EmitBlocks(variants, prev_nonshared_pos, next_nonshared_pos, a,
                       shared_inds, Tail(blocks))

\* flush_cluster: the lines it prints, with the locals the run went through
\* (stage: "empty" = returned at "if not variants", "discarded" = returned at a
\* carrier-count check, "segmented" = reached the block loop)
flush_cluster(variants, prev_nonshared_pos, next_nonshared_pos, a) ==
    IF variants = << >>
    THEN [stage |-> "empty", shared_inds |-> {}, blocks |-> << >>, lines |-> << >>]
    ELSE LET shared_inds == SharedInds(variants)
         IN  IF ~ PassesCarrierCount(Cardinality(shared_inds), a)
             THEN [stage |-> "discarded", shared_inds |-> shared_inds,
                   blocks |-> << >>, lines |-> << >>]
             ELSE LET blocks == Blocks(variants, shared_inds)
                  IN  [stage |-> "segmented", shared_inds |-> shared_inds,
                       blocks |-> blocks,
                       lines |-> EmitBlocks(variants, prev_nonshared_pos,
                                            next_nonshared_pos, a, shared_inds, blocks)]

\* ------------------------------------------------------------------ the inputs
NInd == 2

\* one individual's call at one variant: cyvcf2's genotypes entry
\* [allele, allele, phased] and its gt_types code
HomRef  == [gts |-> << 0, 0, 0 >>, gt_type |-> 0]
Het     == [gts |-> << 0, 1, 0 >>, gt_type |-> 1]
HetPh   == [gts |-> << 1, 0, 1 >>, gt_type |-> 1]
Missing == [gts |-> << -1, -1, 0 >>, gt_type |-> 2]
HomAlt  == [gts |-> << 1, 1, 0 >>, gt_type |-> HOM_ALT]

Variant(chrom, pos, calls, csq) ==
    [CHROM |-> chrom, POS |-> pos,
     genotypes |-> [i \in DOMAIN calls |-> calls[i].gts],
     gt_types |-> [i \in DOMAIN calls |-> calls[i].gt_type],
     CSQ |-> csq]

\* the chromosomes of the stream, in stream order
ChromNames == << << "c", "h", "r", "1" >>, << "2" >> >>

\* what a variant of the stream carries besides its place: the calls of the
\* NInd individuals and the CSQ annotation
Payloads ==
    { [calls |-> [i \in 1..NInd |-> HomAlt], csq |-> << "0" >>],
      [calls |-> [i \in 1..NInd |-> Het],    csq |-> << "1" >>],
      [calls |-> [i \in 1..NInd |-> IF i = 1 THEN HomAlt ELSE HomRef],
       csq |-> << >>] }

\* the rows of the gene table, and main's padding of them
GeneRegions(gene_df) ==
    [k \in DOMAIN gene_df |->
        << lstrip(gene_df[k].chromosome_name, {"c", "h", "r"}),
           IF gene_df[k].start_position - BUFFER > 0
               THEN gene_df[k].start_position - BUFFER ELSE 0,
           gene_df[k].end_position + BUFFER >> ]

GeneRow(name, s, e) ==
    [chromosome_name |-> name, start_position |-> s, end_position |-> e]

\* the command lines of the runs: args, with main's locals gene_regions and
\* gnomad_idx alongside
Configs ==
    { [cluster_distance |-> 1, min_individuals |-> 1, max_individuals |-> None,
       min_variants |-> 1, min_segment_length |-> Some(0),
       max_segment_length |-> None, min_ultra_rare |-> 0,
       ultra_rare_threshold |-> [ok |-> TRUE, num |-> 1, den |-> 10],
       gene_regions |-> GeneRegions(<< GeneRow(<< "1" >>, 10000, 10001),
                                       GeneRow(<< "c", "h", "r", "2" >>, 5, 6) >>),
       gnomad_idx |-> 0],
      [cluster_distance |-> 1, min_individuals |-> 2, max_individuals |-> None,
       min_variants |-> 2, min_segment_length |-> Some(1),
       max_segment_length |-> Some(1), min_ultra_rare |-> 1,
       ultra_rare_threshold |-> [ok |-> TRUE, num |-> 1, den |-> 10],
       gene_regions |-> GeneRegions(<< GeneRow(<< "1" >>, 10003, 10004) >>),
       gnomad_idx |-> 0],
      [cluster_distance |-> 0, min_individuals |-> 1, max_individuals |-> Some(1),
       min_variants |-> 1, min_segment_length |-> Some(0),
       max_segment_length |-> Some(0), min_ultra_rare |-> 0,
       ultra_rare_threshold |-> [ok |-> TRUE, num |-> 0, den |-> 1],
       gene_regions |-> GeneRegions(<< GeneRow(<< "2" >>, 10001, 10001) >>),
       gnomad_idx |-> 0],
      [cluster_distance |-> 1, min_individuals |-> 0, max_individuals |-> Some(2),
       min_variants |-> 1, min_segment_length |-> None,
       max_segment_length |-> None, min_ultra_rare |-> 1,
       ultra_rare_threshold |-> [ok |-> TRUE, num |-> 1, den |-> 10],
       gene_regions |-> GeneRegions(<< GeneRow(<< "1" >>, 0, 0) >>),
       gnomad_idx |-> 0] }

\* ------------------------------------------------------------------ the state
VARIABLES
    pc,                 \* "scan": in main's for loop; "done": main returned;
                        \* "call"/"ret": before/after a direct call of a function
    args,               \* the configuration of the run
    stream,             \* the variants the loop has read so far
    current_cluster,
    prev_nonshared_pos,
    last_pos,
    flushed,            \* the calls of flush_cluster so far: arguments and run
    out,                \* the lines printed so far
    call,               \* the arguments of a direct call
    ret                 \* its result

vars == << pc, args, stream, current_cluster, prev_nonshared_pos, last_pos,
           flushed, out, call, ret >>

\* a call of flush_cluster by main: its arguments and what it did
Flush(variants, prev, next) ==
    [variants |-> variants, prev |-> prev, next |-> next,
     run |-> flush_cluster(variants, prev, next, args)]

\* ------------------------------------------------------------------- main loop
Init ==
    /\ pc = "scan"
    /\ args \in Configs
    /\ stream = << >>
    /\ current_cluster = << >>
    /\ prev_nonshared_pos = None
    /\ last_pos = None
    /\ flushed = << >>
    /\ out = << >>
    /\ call = None
    /\ ret = None

\* the chromosome index (in ChromNames) of the last variant read, 0 before any
LastChrom ==
    IF stream = << >> THEN 0
    ELSE CHOOSE c \in DOMAIN ChromNames : ChromNames[c] = stream[Len(stream)].CHROM

\* the variants the sorted input may yield next: any in-order variant, or, when
\* the run was started on a given file (call[1].vcf), the next one of the file
NextVariants ==
    IF call # None
    THEN IF Len(stream) < Len(call[1].vcf)
         THEN { call[1].vcf[Len(stream) + 1] } ELSE {}
    ELSE IF Len(stream) >= MaxStream THEN {}
    ELSE { Variant(ChromNames[c], p, pl.calls, pl.csq) :
             c \in { c \in DOMAIN ChromNames : c >= LastChrom /\ c >= 1 },
             p \in 0..(MaxDelta * MaxStream),
             pl \in Payloads }

OpenInputOrder(v) ==
    \/ stream = << >> /\ v.CHROM = ChromNames[1] /\ v.POS <= MaxDelta
    \/ /\ stream # << >>
       /\ v.CHROM = stream[Len(stream)].CHROM
       /\ v.POS >= stream[Len(stream)].POS
       /\ v.POS <= stream[Len(stream)].POS + MaxDelta
    \/ /\ stream # << >>
       /\ v.CHROM # stream[Len(stream)].CHROM
       /\ v.POS \in {0, MaxDelta}

\* the input is sorted by chromosome, then position (a given file is)
InOrder(v) == IF call # None THEN TRUE ELSE OpenInputOrder(v)

\* lines 318-321: the first variant
FirstVariant ==
    \E v \in NextVariants :
        /\ InOrder(v)
        /\ pc = "scan"
        /\ last_pos = None
        /\ current_cluster' = Append(current_cluster, v)
        /\ last_pos' = Some(v.POS)
        /\ stream' = Append(stream, v)
        /\ UNCHANGED << pc, args, prev_nonshared_pos, flushed, out, call, ret >>

ChromChangeAsGap ==
    \E v \in NextVariants :
        /\ InOrder(v)
        /\ pc = "scan"
        /\ last_pos # None
        /\ v.CHROM # current_cluster[1].CHROM
        /\ LET f == Flush(current_cluster, prev_nonshared_pos, Some(v.POS))
           IN  /\ flushed' = Append(flushed, f)
               /\ out' = out \o f.run.lines
        /\ prev_nonshared_pos' = Some(current_cluster[Len(current_cluster)].POS)
        /\ current_cluster' = << v >>
        /\ last_pos' = Some(v.POS)
        /\ stream' = Append(stream, v)
        /\ UNCHANGED << pc, args, call, ret >>

ChromChangeKeepsFlank ==
    \E v \in NextVariants :
        /\ InOrder(v)
        /\ pc = "scan"
        /\ last_pos # None
        /\ v.CHROM # current_cluster[1].CHROM
        /\ LET f == Flush(current_cluster, prev_nonshared_pos, None)
           IN  /\ flushed' = Append(flushed, f)
               /\ out' = out \o f.run.lines
        /\ current_cluster' = << v >>
        /\ last_pos' = Some(v.POS)
        /\ stream' = Append(stream, v)
        /\ UNCHANGED << pc, args, prev_nonshared_pos, call, ret >>

\* lines 323-342: a variant on another chromosome
ChromChange ==
    \E v \in NextVariants :
        /\ InOrder(v)
        /\ pc = "scan"
        /\ last_pos # None
        /\ v.CHROM # current_cluster[1].CHROM
        /\ LET f == Flush(current_cluster, prev_nonshared_pos, None)
           IN  /\ flushed' = Append(flushed, f)
               /\ out' = out \o f.run.lines
        /\ current_cluster' = << v >>
        /\ last_pos' = Some(v.POS)
        /\ prev_nonshared_pos' = None
        /\ stream' = Append(stream, v)
        /\ UNCHANGED << pc, args, call, ret >>

WithinDistanceStrict(v) == v.POS - last_pos[1] < args.cluster_distance

\* lines 344-345: distance = v.POS - last_pos; distance <= args.cluster_distance
WithinDistance(v) == v.POS - last_pos[1] <= args.cluster_distance

\* lines 344-347: a variant within cluster_distance of the last one
AppendVariant ==
    \E v \in NextVariants :
        /\ InOrder(v)
        /\ pc = "scan"
        /\ last_pos # None
        /\ v.CHROM = current_cluster[1].CHROM
        /\ WithinDistance(v)
        /\ current_cluster' = Append(current_cluster, v)
        /\ last_pos' = Some(v.POS)
        /\ stream' = Append(stream, v)
        /\ UNCHANGED << pc, args, prev_nonshared_pos, flushed, out, call, ret >>

GapFlushFlankIfPrinted ==
    \E v \in NextVariants :
        /\ InOrder(v)
        /\ pc = "scan"
        /\ last_pos # None
        /\ v.CHROM = current_cluster[1].CHROM
        /\ ~ WithinDistance(v)
        /\ LET f == Flush(current_cluster, prev_nonshared_pos, Some(v.POS))
           IN  /\ flushed' = Append(flushed, f)
               /\ out' = out \o f.run.lines
               /\ prev_nonshared_pos' =
                      IF f.run.lines = << >> THEN prev_nonshared_pos
                      ELSE Some(current_cluster[Len(current_cluster)].POS)
        /\ current_cluster' = << v >>
        /\ last_pos' = Some(v.POS)
        /\ stream' = Append(stream, v)
        /\ UNCHANGED << pc, args, call, ret >>

\* lines 348-366: a variant further than cluster_distance from the last one
GapFlush ==
    \E v \in NextVariants :
        /\ InOrder(v)
        /\ pc = "scan"
        /\ last_pos # None
        /\ v.CHROM = current_cluster[1].CHROM
        /\ ~ WithinDistance(v)
        /\ LET f == Flush(current_cluster, prev_nonshared_pos, Some(v.POS))
           IN  /\ flushed' = Append(flushed, f)
               /\ out' = out \o f.run.lines
        /\ prev_nonshared_pos' = Some(current_cluster[Len(current_cluster)].POS)
        /\ current_cluster' = << v >>
        /\ last_pos' = Some(v.POS)
        /\ stream' = Append(stream, v)
        /\ UNCHANGED << pc, args, call, ret >>

\* the iterator is exhausted: at any point of an open input, at the end of a
\* given file
InputExhausted ==
    IF call = None THEN TRUE ELSE Len(stream) >= Len(call[1].vcf)

EndOfStreamNoFlush ==
    /\ pc = "scan"
    /\ InputExhausted
    /\ pc' = "done"
    /\ UNCHANGED << args, stream, current_cluster, prev_nonshared_pos, last_pos,
                    flushed, out, call, ret >>

\* lines 368-382: the input is exhausted
EndOfStream ==
    /\ pc = "scan"
    /\ InputExhausted
    /\ LET f == Flush(current_cluster, prev_nonshared_pos, None)
       IN  /\ flushed' = Append(flushed, f)
           /\ out' = out \o f.run.lines
    /\ pc' = "done"
    /\ UNCHANGED << args, stream, current_cluster, prev_nonshared_pos, last_pos,
                    call, ret >>

Next ==
    \/ FirstVariant
    \/ ChromChange
    \/ AppendVariant
    \/ GapFlush
    \/ EndOfStream

Spec == Init /\ [][Next]_vars

\* ------------------------------------------------ runs of main on given files
\* files of 9 variants with 3 individuals, homozygous-alternate carriers
\* throughout, consecutive positions 1 or 100 apart; the file is as is
\* ("none"), or changes chromosome after the fifth variant ("chrom"), or has
\* its fifth gap one more than cluster_distance ("gap"), or has the third
\* individual heterozygous at the fifth variant ("het")
ScenarioConfigs ==
    { [cluster_distance |-> dist, min_individuals |-> 2, max_individuals |-> None,
       min_variants |-> 5, min_segment_length |-> Some(0),
       max_segment_length |-> None, min_ultra_rare |-> 0,
       ultra_rare_threshold |-> [ok |-> TRUE, num |-> 1, den |-> 10000],
       gene_regions |-> GeneRegions(<< GeneRow(<< "1" >>, 10050, 10060) >>),
       gnomad_idx |-> 0] : dist \in { 100, 2000 } }

ScenarioVcf(dist, gaps, brk) ==
    LET gap(j) == IF brk = "gap" /\ j = 5 THEN dist + 1 ELSE gaps[j]
        pos[j \in 1..9] == IF j = 1 THEN 100 ELSE pos[j - 1] + gap(j - 1)
    IN  [j \in 1..9 |->
            Variant(IF brk = "chrom" /\ j > 5 THEN ChromNames[2] ELSE ChromNames[1],
                    pos[j],
                    [i \in 1..3 |-> IF brk = "het" /\ j = 5 /\ i = 3
                                     THEN Het ELSE HomAlt],
                    IF j % 2 = 1 THEN << "1" >> ELSE << >>)]

ScenarioInit ==
    \E a \in ScenarioConfigs, gaps \in [1..8 -> { 1, 100 }],
       brk \in { "none", "chrom", "gap", "het" } :
        /\ pc = "scan"
        /\ args = a
        /\ stream = << >>
        /\ current_cluster = << >>
        /\ prev_nonshared_pos = None
        /\ last_pos = None
        /\ flushed = << >>
        /\ out = << >>
        /\ call = Some([fn |-> "main",
                        vcf |-> ScenarioVcf(a.cluster_distance, gaps, brk)])
        /\ ret = None

SpecScenario == ScenarioInit /\ [][Next]_vars

\* ------------------------------------------------- direct calls of functions
\* flush_cluster called on its own: call holds the arguments, ret the run
FlushCall ==
    /\ pc = "call"
    /\ call # None
    /\ call[1].fn = "flush_cluster"
    /\ ret' = Some(flush_cluster(call[1].variants, call[1].prev, call[1].next, args))
    /\ pc' = "ret"
    /\ UNCHANGED << args, stream, current_cluster, prev_nonshared_pos, last_pos,
                    flushed, out, call >>

CallInit(c) ==
    /\ pc = "call"
    /\ stream = << >>
    /\ current_cluster = << >>
    /\ prev_nonshared_pos = None
    /\ last_pos = None
    /\ flushed = << >>
    /\ out = << >>
    /\ call = Some(c)
    /\ ret = None

\* a cluster of n variants in which individual i carries k[i] of them: the
\* first k[i] when i is odd, the last k[i] when i is even; the calls vary
CarrierCall(i, j) ==
    IF (i + j) % 3 = 0 THEN Het ELSE IF (i + j) % 3 = 1 THEN HomAlt ELSE HetPh

NonCarrierCall(i, j) == IF j % 2 = 0 THEN HomRef ELSE Missing

CarrierCluster(n, k) ==
    [j \in 1..n |->
        Variant(ChromNames[1], j - 1,
                [i \in 1..NInd |->
                    IF (i % 2 = 1 /\ j <= k[i]) \/ (i % 2 = 0 /\ j > n - k[i])
                    THEN CarrierCall(i, j) ELSE NonCarrierCall(i, j)],
                << "0" >>)]

CarrierInit ==
    \E n \in 1..MaxCarrierLen :
        \E k \in [1..NInd -> 0..n] :
            /\ CallInit([fn |-> "flush_cluster", variants |-> CarrierCluster(n, k),
                         prev |-> None, next |-> None])
            /\ args \in Configs

SpecCarrier == CarrierInit /\ [][FlushCall]_vars

\* clusters for direct calls of flush_cluster: up to MaxFlushLen variants on
\* one chromosome from position 2 on, consecutive gaps within cluster_distance
FlushPayloads ==
    Payloads \cup
    { [calls |-> [i \in 1..NInd |-> IF i = 1 THEN Het ELSE HomAlt],
       csq |-> << "0" >>] }

RECURSIVE FlushClusters(_, _, _)
FlushClusters(chrom, dist, len) ==
    IF len = 1
    THEN { << Variant(chrom, 2, pl.calls, pl.csq) >> : pl \in FlushPayloads }
    ELSE { Append(c, Variant(chrom, c[Len(c)].POS + d, pl.calls, pl.csq)) :
             c \in FlushClusters(chrom, dist, len - 1),
             d \in 0..(IF dist < 1 THEN dist ELSE 1),
             pl \in FlushPayloads }

FlushInit ==
    \E a \in Configs :
        \E c \in DOMAIN ChromNames, len \in 1..MaxFlushLen :
            \E variants \in FlushClusters(ChromNames[c], a.cluster_distance, len) :
                \E prev \in {None, Some(1 - a.cluster_distance)},
                   next \in {None, Some(variants[Len(variants)].POS
                                           + a.cluster_distance + 1)} :
                    /\ CallInit([fn |-> "flush_cluster", variants |-> variants,
                                 prev |-> prev, next |-> next])
                    /\ args = a

SpecFlush == FlushInit /\ [][FlushCall]_vars

\* is_ultra_rare_variant called on its own, with the gnomad_idx and the
\* threshold of args (as line 252 passes them)
RareCall ==
    /\ pc = "call"
    /\ call # None
    /\ call[1].fn = "is_ultra_rare_variant"
    /\ ret' = Some(is_ultra_rare_variant(call[1].variant, args.gnomad_idx,
                                         args.ultra_rare_threshold))
    /\ pc' = "ret"
    /\ UNCHANGED << args, stream, current_cluster, prev_nonshared_pos, last_pos,
                    flushed, out, call >>

\* the CSQ texts: all texts of up to MaxCsqLen characters over this alphabet
CsqAlphabet == { ",", "|", ".", "0", "1" }

CsqTexts == UNION { [1..n -> CsqAlphabet] : n \in 0..MaxCsqLen }

RareInit ==
    \E csq \in CsqTexts, idx \in 0..1,
       thr \in { [ok |-> TRUE, num |-> 1, den |-> 10], [ok |-> TRUE, num |-> 0, den |-> 1] } :
        /\ CallInit([fn |-> "is_ultra_rare_variant",
                     variant |-> Variant(ChromNames[1], 0,
                                         [i \in 1..NInd |-> HomAlt], csq)])
        /\ \E a \in Configs :
               /\ a.min_individuals = 0
               /\ args = [a EXCEPT !.gnomad_idx = idx, !.ultra_rare_threshold = thr]

SpecRare == RareInit /\ [][RareCall]_vars

\* overlaps_gene_region called on its own, on regions padded as main pads them
OverlapCall ==
    /\ pc = "call"
    /\ call # None
    /\ call[1].fn = "overlaps_gene_region"
    /\ ret' = Some(overlaps_gene_region(call[1].chrom, call[1].start, call[1].end,
                                        call[1].regions))
    /\ pc' = "ret"
    /\ UNCHANGED << args, stream, current_cluster, prev_nonshared_pos, last_pos,
                    flushed, out, call >>

\* gene rows: one whose padded start is clipped at 0, one whose is not
OverlapGeneRows ==
    { GeneRow(name, s, s + w) :
        name \in { << "1" >>, << "c", "h", "r", "2" >> },
        s \in { 5, BUFFER + 2 },
        w \in 0..1 }

OverlapGeneTables ==
    { << >> } \cup { << r >> : r \in OverlapGeneRows }
              \cup { << r, q >> : r \in { GeneRow(<< "1" >>, BUFFER + 2, BUFFER + 2) },
                                  q \in OverlapGeneRows }

\* block positions around the padded starts and ends of those regions
OverlapPositions ==
    { b + k : b \in { 0, BUFFER + 4, 2 * BUFFER + 1 }, k \in 0..MaxOverlapOff }

OverlapInit ==
    \E chrom \in { ChromNames[c] : c \in DOMAIN ChromNames } \cup { << "1" >> },
       start \in OverlapPositions, end \in OverlapPositions,
       gene_df \in OverlapGeneTables :
        /\ start <= end
        /\ CallInit([fn |-> "overlaps_gene_region", chrom |-> chrom,
                     start |-> start, end |-> end,
                     regions |-> GeneRegions(gene_df)])
        /\ \E a \in Configs : a.min_individuals = 0 /\ args = a

SpecOverlap == OverlapInit /\ [][OverlapCall]_vars

\* ===================================================================== claims
\* helpers of the statements
RECURSIVE Concat(_)
Concat(ss) == IF ss = << >> THEN << >> ELSE Head(ss) \o Concat(Tail(ss))

FlushedClusters == [k \in DOMAIN flushed |-> flushed[k].variants]

OneChromosome(c) == \A i, j \in DOMAIN c : c[i].CHROM = c[j].CHROM

GapsWithin(c) ==
    \A i \in 1..(Len(c) - 1) : c[i + 1].POS - c[i].POS <= args.cluster_distance

Separated(c, d) ==
    \/ c[Len(c)].CHROM # d[1].CHROM
    \/ d[1].POS - c[Len(c)].POS > args.cluster_distance

RunsOfStream ==
    /\ Concat(FlushedClusters) = stream
    /\ \A k \in DOMAIN flushed :
           OneChromosome(flushed[k].variants) /\ GapsWithin(flushed[k].variants)
    /\ \A k \in 1..(Len(flushed) - 1) :
           flushed[k].variants # << >> /\ flushed[k + 1].variants # << >>
               => Separated(flushed[k].variants, flushed[k + 1].variants)

\* C1 as stated: when main has returned, the clusters handed to flush_cluster
\* are the maximal runs of the stream, and every one of them is non-empty.
C1_AllFlushedNonEmpty ==
    pc = "done" =>
        /\ RunsOfStream
        /\ \A k \in DOMAIN flushed : flushed[k].variants # << >>

\* C1 (amended): when main has returned, the clusters handed to flush_cluster
\* concatenate to the stream, each is on one chromosome with inner gaps
\* <= cluster_distance, consecutive ones are separated by a chromosome change or
\* a gap > cluster_distance; each is non-empty when the stream is non-empty, and
\* for the empty stream the one cluster handed over is empty.
C1_MaximalRuns ==
    pc = "done" =>
        /\ RunsOfStream
        /\ stream # << >> => \A k \in DOMAIN flushed : flushed[k].variants # << >>
        /\ stream = << >> => FlushedClusters = << << >> >>

\* a finished run with three flushes: a gap boundary and a chromosome boundary
C1_Witness ==
    /\ pc = "done"
    /\ Len(flushed) = 3
    /\ Len(stream) = 3
    /\ stream[1].CHROM = stream[2].CHROM
    /\ stream[2].CHROM # stream[3].CHROM

\* C2: a step that reads a variant on another chromosome flushes the current
\* cluster with next-flank None and the remembered previous flank, makes the
\* new cluster [v] and resets the previous-flank memory to None; so of two
\* consecutive flushes split by a chromosome change the first has next-flank
\* None and the second previous-flank None.
C2_ChromChangeStep ==
    /\ pc = "scan" /\ last_pos # None /\ stream' # stream
    /\ stream'[Len(stream')].CHROM # current_cluster[1].CHROM
    => /\ flushed' = Append(flushed,
                            Flush(current_cluster, prev_nonshared_pos, None))
       /\ flushed'[Len(flushed')].next = None
       /\ flushed'[Len(flushed')].variants = current_cluster
       /\ current_cluster' = << stream'[Len(stream')] >>
       /\ prev_nonshared_pos' = None

C2_SplitFlushes ==
    \A k \in 1..(Len(flushed) - 1) :
        /\ flushed[k].variants # << >> /\ flushed[k + 1].variants # << >>
        /\ flushed[k].variants[1].CHROM # flushed[k + 1].variants[1].CHROM
        => flushed[k].next = None /\ flushed[k + 1].prev = None

C2_ChromosomeBoundary == [][C2_ChromChangeStep /\ C2_SplitFlushes']_vars

\* two consecutive flushes of clusters on different chromosomes, the first of
\* which had a previous flank
C2_Witness ==
    \E k \in 1..(Len(flushed) - 1) :
        /\ flushed[k].variants # << >> /\ flushed[k + 1].variants # << >>
        /\ flushed[k].variants[1].CHROM # flushed[k + 1].variants[1].CHROM
        /\ flushed[k].prev # None

\* C3: a step that reads a variant on the cluster's chromosome further than
\* cluster_distance from last_pos flushes the cluster C with next-flank v.POS
\* and the previous flank held before the step; afterwards the previous-flank
\* memory is the position of C's last variant, whatever C printed, and the new
\* cluster is [v].
C3_GapStep ==
    /\ pc = "scan" /\ last_pos # None /\ stream' # stream
    /\ stream'[Len(stream')].CHROM = current_cluster[1].CHROM
    /\ stream'[Len(stream')].POS - last_pos[1] > args.cluster_distance
    => /\ Len(flushed') = Len(flushed) + 1
       /\ SubSeq(flushed', 1, Len(flushed)) = flushed
       /\ flushed'[Len(flushed')].variants = current_cluster
       /\ flushed'[Len(flushed')].next = Some(stream'[Len(stream')].POS)
       /\ flushed'[Len(flushed')].prev = prev_nonshared_pos
       /\ prev_nonshared_pos' = Some(current_cluster[Len(current_cluster)].POS)
       /\ current_cluster' = << stream'[Len(stream')] >>

C3_GapBoundary == [][C3_GapStep]_vars

\* after a gap flush of a cluster that printed nothing, and one that printed
C3_Witness ==
    /\ Len(flushed) >= 2
    /\ flushed[1].next # None /\ flushed[1].run.lines = << >>
    /\ flushed[2].next # None /\ flushed[2].run.lines # << >>
    /\ prev_nonshared_pos = Some(flushed[2].variants[Len(flushed[2].variants)].POS)

\* C4: the step that ends the stream flushes the remaining cluster once, with
\* next-flank None and the remembered previous flank; nothing is flushed after
\* it; for the empty stream that flush gets an empty cluster and prints nothing.
C4_EndStep ==
    /\ (pc = "scan" /\ pc' = "done"
        => /\ flushed' = Append(flushed,
                                Flush(current_cluster, prev_nonshared_pos, None))
           /\ flushed'[Len(flushed')].variants = current_cluster
           /\ flushed'[Len(flushed')].next = None
           /\ flushed'[Len(flushed')].prev = prev_nonshared_pos
           /\ (stream = << >> =>
                  /\ flushed'[Len(flushed')].variants = << >>
                  /\ flushed'[Len(flushed')].run.stage = "empty"
                  /\ out' = << >>))
    /\ (pc = "done" => flushed' = flushed /\ out' = out)
    /\ (pc' = "done" =>
           Len(flushed') = 1 + Cardinality({ k \in 1..(Len(stream') - 1) :
                                 \/ stream'[k].CHROM # stream'[k + 1].CHROM
                                 \/ stream'[k + 1].POS - stream'[k].POS
                                        > args.cluster_distance }))

C4_EndOfStream == [][C4_EndStep]_vars

\* a finished run whose last cluster had a previous flank and printed a line
C4_Witness ==
    /\ pc = "done"
    /\ flushed[Len(flushed)].variants # << >>
    /\ flushed[Len(flushed)].prev # None
    /\ flushed[Len(flushed)].run.lines # << >>

\* the empty stream: one flush, of an empty cluster
C4_EmptyStreamWitness ==
    pc = "done" /\ stream = << >> /\ Len(flushed) = 1 /\ out = << >>

\* ---------------------------------------------------------------- C5
\* the number of the cluster's variants at which individual i has an allele > 0
\* among its first two allele calls
C5_CarriedCount(variants, i) ==
    Cardinality({ j \in DOMAIN variants :
                    variants[j].genotypes[i][1] > 0 \/ variants[j].genotypes[i][2] > 0 })

C5_Floor80(n) == (4 * n) \div 5

\* C5 as stated: after flush_cluster ran on a cluster of n >= 1 variants, i is
\* in the carrier set iff i carries >= floor(0.8 * n) of the variants.
C5_FloorRuleAlone ==
    pc = "ret" /\ call[1].variants # << >> =>
        \A i \in 1..NInd :
            i \in ret[1].shared_inds
                <=> C5_CarriedCount(call[1].variants, i)
                        >= C5_Floor80(Len(call[1].variants))

\* C5 (amended): after flush_cluster ran on a cluster of n >= 1 variants, i is
\* in the carrier set iff i carries at least one of the variants and carries
\* >= floor(0.8 * n) of them; for n = 10, carrying 8 is in and carrying 7 is out.
C5_CarrierSet ==
    pc = "ret" /\ call[1].variants # << >> =>
        \A i \in 1..NInd :
            /\ i \in ret[1].shared_inds
                   <=> /\ C5_CarriedCount(call[1].variants, i) >= 1
                       /\ C5_CarriedCount(call[1].variants, i)
                              >= C5_Floor80(Len(call[1].variants))
            /\ Len(call[1].variants) = 10 =>
                  /\ C5_CarriedCount(call[1].variants, i) = 8
                         => i \in ret[1].shared_inds
                  /\ C5_CarriedCount(call[1].variants, i) = 7
                         => i \notin ret[1].shared_inds

\* a cluster of 10 variants with one individual carrying 8 and another 7
C5_Witness ==
    /\ pc = "ret"
    /\ Len(call[1].variants) = 10
    /\ \E i, j \in 1..NInd :
           /\ C5_CarriedCount(call[1].variants, i) = 8
           /\ i \in ret[1].shared_inds
           /\ C5_CarriedCount(call[1].variants, j) = 7
           /\ j \notin ret[1].shared_inds

\* ---------------------------------------------------------------- C6
C6_ModeOf(v, shared_inds) ==
    IF \A i \in shared_inds : v.gt_types[i] = 3 THEN "double" ELSE "single"

\* C6: when flush_cluster got past the carrier-count check on a cluster of n
\* variants, its blocks are the maximal runs of equal zygosity mode: the first
\* starts at 0, the last ends at n - 1, each starts right after the one before
\* (so the sizes sum to n), every variant of a block has the block's mode, and
\* adjacent blocks differ in mode.
C6_BlocksPartition ==
    pc = "ret" /\ ret[1].stage = "segmented" =>
        LET b == ret[1].blocks
            variants == call[1].variants
        IN  /\ b # << >>
            /\ b[1][1] = 0
            /\ b[Len(b)][2] = Len(variants) - 1
            /\ \A k \in DOMAIN b : b[k][1] <= b[k][2]
            /\ \A k \in 1..(Len(b) - 1) :
                   b[k + 1][1] = b[k][2] + 1 /\ b[k + 1][3] # b[k][3]
            /\ \A k \in DOMAIN b : \A j \in b[k][1]..b[k][2] :
                   C6_ModeOf(variants[j + 1], ret[1].shared_inds) = b[k][3]

\* a cluster cut into three blocks
C6_Witness ==
    /\ pc = "ret"
    /\ ret[1].stage = "segmented"
    /\ Len(ret[1].blocks) = 3
    /\ ret[1].shared_inds # {}

\* ---------------------------------------------------------------- C7
C7_BlockVars(b) == SubSeq(call[1].variants, b[1] + 1, b[2] + 1)

C7_PassesAll(b) ==
    LET bv == C7_BlockVars(b)
        start == bv[1].POS
        end == bv[Len(bv)].POS
    IN  /\ Len(bv) >= args.min_variants
        /\ args.min_segment_length # None => end - start >= args.min_segment_length[1]
        /\ args.max_segment_length # None => end - start <= args.max_segment_length[1]
        /\ \E k \in DOMAIN args.gene_regions :
               /\ args.gene_regions[k][1] = lstrip(bv[1].CHROM, {"c", "h", "r"})
               /\ start <= args.gene_regions[k][3]
               /\ end >= args.gene_regions[k][2]
        /\ Cardinality({ j \in DOMAIN bv :
                           is_ultra_rare_variant(bv[j], args.gnomad_idx,
                                                 args.ultra_rare_threshold) })
               >= args.min_ultra_rare

RECURSIVE C7_PassingBlocks(_)
C7_PassingBlocks(bs) ==
    IF bs = << >> THEN << >>
    ELSE (IF C7_PassesAll(Head(bs)) THEN << Head(bs) >> ELSE << >>)
         \o C7_PassingBlocks(Tail(bs))

\* C7: when flush_cluster got past the carrier-count check, the lines it
\* printed are, in block order, one for each block that passes all four filters
\* and none for any other block, whatever the other blocks of the cluster did.
C7_LinePerPassingBlock ==
    pc = "ret" /\ ret[1].stage = "segmented" =>
        LET passing == C7_PassingBlocks(ret[1].blocks)
            lines == ret[1].lines
        IN  /\ Len(lines) = Len(passing)
            /\ \A k \in DOMAIN lines :
                   /\ lines[k].b_start = passing[k][1]
                   /\ lines[k].b_end = passing[k][2]
                   /\ lines[k].mode = passing[k][3]

\* a cluster whose first block fails a filter and whose later block is printed
C7_Witness ==
    /\ pc = "ret"
    /\ ret[1].stage = "segmented"
    /\ Len(ret[1].blocks) >= 2
    /\ ~ C7_PassesAll(ret[1].blocks[1])
    /\ ret[1].lines # << >>

\* ---------------------------------------------------------------- C9
\* C9: every printed line of a block [b_start, b_end] has start and end at
\* the block's first and last variant; its left gap is start minus the position
\* of the cluster variant before the block when b_start > 0, else start minus
\* prev_flank; its right gap is the position of the cluster variant after the
\* block minus end when there is one, else next_flank minus end; a None flank
\* used this way gives a None gap.
C9_FlankGaps ==
    pc = "ret" =>
        \A k \in DOMAIN ret[1].lines :
            LET l == ret[1].lines[k]
                variants == call[1].variants
            IN  /\ l.start = variants[l.b_start + 1].POS
                /\ l.end = variants[l.b_end + 1].POS
                /\ l.err_left =
                       IF l.b_start > 0
                       THEN Some(l.start - variants[l.b_start].POS)
                       ELSE IF call[1].prev = None THEN None
                       ELSE Some(l.start - call[1].prev[1])
                /\ l.err_right =
                       IF l.b_end + 1 < Len(variants)
                       THEN Some(variants[l.b_end + 2].POS - l.end)
                       ELSE IF call[1].next = None THEN None
                       ELSE Some(call[1].next[1] - l.end)

\* two printed lines of one cluster that had a previous flank and no next flank:
\* the first block takes its right gap from inside the cluster, the second its
\* left gap
C9_Witness ==
    /\ pc = "ret"
    /\ Len(ret[1].lines) = 2
    /\ call[1].prev # None
    /\ call[1].next = None
    /\ ret[1].lines[1].err_left # None
    /\ ret[1].lines[2].err_right = None
    /\ ret[1].lines[2].b_start > 0

\* ---------------------------------------------------------------- C8
C8_TooFewOrTooMany(f) ==
    /\ f.variants # << >>
    /\ \/ Cardinality(f.run.shared_inds) < args.min_individuals
       \/ /\ args.max_individuals # None
          /\ Cardinality(f.run.shared_inds) > args.max_individuals[1]

C8_FlushStep ==
    Len(flushed') = Len(flushed) + 1 /\ C8_TooFewOrTooMany(flushed'[Len(flushed')])
    => LET f == flushed'[Len(flushed')]
       IN  /\ f.run.lines = << >>
           /\ out' = out
           /\ pc' = "scan" =>
                  /\ current_cluster' = << stream'[Len(stream')] >>
                  /\ last_pos' = Some(stream'[Len(stream')].POS)
                  /\ prev_nonshared_pos' =
                         IF f.next = None THEN None
                         ELSE Some(f.variants[Len(f.variants)].POS)

\* C8: a flush of a cluster whose carrier set has fewer than min_individuals
\* members, or more than a configured max_individuals, prints no line; the loop
\* goes on as after any flush: the new cluster is [v] and, at a gap, the
\* previous-flank memory is the position of the discarded cluster's last variant.
C8_DiscardedCluster == [][C8_FlushStep]_vars

\* after a gap flush of a cluster with too few carriers that itself had a
\* previous flank
C8_Witness ==
    /\ Len(flushed) = 2
    /\ Cardinality(flushed[2].run.shared_inds) < args.min_individuals
    /\ flushed[2].prev # None
    /\ flushed[2].next # None
    /\ flushed[2].run.stage = "discarded"
    /\ pc = "scan"
    /\ prev_nonshared_pos = Some(flushed[2].variants[Len(flushed[2].variants)].POS)

\* ---------------------------------------------------------------- C10
C10_Entries == split(call[1].variant.CSQ, ",")

C10_Fields(k) == split(C10_Entries[k], "|")

C10_HasField(k) == Len(C10_Fields(k)) > args.gnomad_idx

C10_Field(k) == C10_Fields(k)[args.gnomad_idx + 1]

C10_Placeholder(k) == C10_Field(k) = << >> \/ C10_Field(k) = << "." >>

C10_AtMostThreshold(k) ==
    /\ float(C10_Field(k)).ok
    /\ float(C10_Field(k)).num * args.ultra_rare_threshold.den
           <= args.ultra_rare_threshold.num * float(C10_Field(k)).den

C11_Meet(s1, e1, s2, e2) ==
    (IF s1 > s2 THEN s1 ELSE s2) <= (IF e1 < e2 THEN e1 ELSE e2)

C11_SameChromosome(k) ==
    call[1].regions[k][1] = lstrip(call[1].chrom, {"c", "h", "r"})

\* C11: overlaps_gene_region is true iff the closed block [start, end] and the
\* closed padded interval of some region on the block's chromosome (names
\* compared after stripping) have a position in common; a block ending at a
\* region's start overlaps it, and a block starting one past a region's end
\* does not overlap that region.
C11_ClosedOverlap ==
    pc = "ret" =>
        /\ ret[1] <=> \E k \in DOMAIN call[1].regions :
                          /\ C11_SameChromosome(k)
                          /\ C11_Meet(call[1].start, call[1].end,
                                      call[1].regions[k][2], call[1].regions[k][3])
        /\ \A k \in DOMAIN call[1].regions :
               C11_SameChromosome(k) /\ call[1].end = call[1].regions[k][2]
                   => ret[1]
        /\ Len(call[1].regions) = 1 /\ call[1].start = call[1].regions[1][3] + 1
               => ~ ret[1]

\* a block that ends exactly at the (unclipped) start of the one region of its
\* chromosome, and begins before it
C11_Witness ==
    /\ pc = "ret"
    /\ ret[1]
    /\ Len(call[1].regions) = 1
    /\ C11_SameChromosome(1)
    /\ call[1].regions[1][2] > 0
    /\ call[1].end = call[1].regions[1][2]
    /\ call[1].start < call[1].end

\* a block that starts one past the end of the one region of its chromosome
C11_PastEndWitness ==
    /\ pc = "ret"
    /\ ~ ret[1]
    /\ Len(call[1].regions) = 1
    /\ C11_SameChromosome(1)
    /\ call[1].start = call[1].regions[1][3] + 1

\* ---------------------------------------------------------------- C12
C12_Scenario ==
    /\ Len(stream) = 9
    /\ \A j \in 1..8 :
           /\ stream[j + 1].CHROM = stream[j].CHROM
           /\ stream[j + 1].POS - stream[j].POS <= args.cluster_distance
    /\ \A j \in 1..9 :
           /\ DOMAIN stream[j].genotypes = 1..3
           /\ \A i \in 1..3 :
                  /\ stream[j].genotypes[i][1] > 0
                  /\ stream[j].genotypes[i][2] > 0
                  /\ stream[j].gt_types[i] = 3
    /\ args.min_individuals = 2
    /\ args.min_variants = 5
    /\ args.min_ultra_rare = 0
    /\ args.max_individuals = None
    /\ args.min_segment_length = Some(0)
    /\ args.max_segment_length = None
    /\ Len(args.gene_regions) = 1
    /\ args.gene_regions[1][1] = lstrip(stream[1].CHROM, {"c", "h", "r"})
    /\ args.gene_regions[1][2] <= stream[9].POS
    /\ stream[1].POS <= args.gene_regions[1][3]

\* C12: a finished run on 9 variants of one chromosome, consecutive gaps within
\* cluster_distance, 3 individuals homozygous-alternate carriers at every
\* variant, min_individuals = 2, min_variants = 5, min_ultra_rare = 0 (the other
\* options at their defaults) and one overlapping gene region has printed
\* exactly one line: mode "double", 3 shared individuals, 9 variants, from the
\* first to the last position, both flank gaps None.
C12_OneDoubleRecord ==
    pc = "done" /\ C12_Scenario =>
        /\ Len(out) = 1
        /\ out[1].mode = "double"
        /\ out[1].shared_individual_count = 3
        /\ out[1].variant_count = 9
        /\ out[1].start = stream[1].POS
        /\ out[1].end = stream[9].POS
        /\ out[1].err_left = None
        /\ out[1].err_right = None

\* the finished scenario run, none of whose variants is ultra-rare
C12_Witness ==
    /\ pc = "done"
    /\ C12_Scenario
    /\ Len(out) = 1
    /\ out[1].n_ultra_rare = 0
    /\ Len(flushed) = 1

\* ---------------------------------------------------------------- C13
\* the flank gaps of one printed line of the flush f
C13_LineGaps(f, l) ==
    /\ l.err_left # None => l.err_left[1] >= 0
    /\ l.err_right # None => l.err_right[1] >= 0
    /\ l.b_start = 0 /\ l.err_left # None
           => l.err_left[1] > args.cluster_distance
    /\ l.b_end = Len(f.variants) - 1 /\ l.err_right # None
           => l.err_right[1] > args.cluster_distance
    /\ l.b_start > 0
           => l.err_left # None /\ l.err_left[1] <= args.cluster_distance
    /\ l.b_end < Len(f.variants) - 1
           => l.err_right # None /\ l.err_right[1] <= args.cluster_distance

\* the previous flank of the k-th flush is a position on its own chromosome:
\* the last position of the cluster flushed just before it
C13_PrevOnSameChromosome(k) ==
    flushed[k].prev # None =>
        /\ k > 1
        /\ flushed[k].variants # << >>
        /\ LET c == flushed[k - 1].variants
           IN  /\ c[Len(c)].CHROM = flushed[k].variants[1].CHROM
               /\ flushed[k].prev = Some(c[Len(c)].POS)

\* C13: on a sorted input, every flank gap of every printed line is >= 0 when
\* not None; a gap taken from the cluster's prev_flank or next_flank is
\* > cluster_distance, a gap taken from a neighbouring variant of the same
\* cluster is <= cluster_distance; and the prev_flank passed to a flush is a
\* position on the flushed cluster's own chromosome.
C13_FlankGapRanges ==
    \A k \in DOMAIN flushed :
        /\ C13_PrevOnSameChromosome(k)
        /\ \A n \in DOMAIN flushed[k].run.lines :
               C13_LineGaps(flushed[k], flushed[k].run.lines[n])

\* a printed line of the first block of a two-block cluster that had a previous
\* flank: left gap from prev_flank, right gap from inside the cluster; and the
\* flush before it printed a line with a right gap from next_flank
C13_Witness ==
    /\ Len(flushed) = 2
    /\ flushed[1].run.lines # << >>
    /\ flushed[1].run.lines[1].err_right # None
    /\ flushed[2].prev # None
    /\ flushed[2].run.lines # << >>
    /\ flushed[2].run.lines[1].b_start = 0
    /\ flushed[2].run.lines[1].b_end < Len(flushed[2].variants) - 1
    /\ flushed[2].run.lines[1].err_left # None

====
